---- MODULE Spec2Model ----
(***************************************************************************)
(* Model of src/Bitmask.cpp: the class template                            *)
(*   BitMaskBase<MaskType, OpType, TMax>                                   *)
(* and its two front ends BitMask and Enummask.                            *)
(*                                                                         *)
(* A mask object is its template instantiation T (the bit count of         *)
(* MaskType and the width TMax) and its one data member Mask.              *)
(*                                                                         *)
(* Spec      : one object, constructed from a raw value, on which a caller *)
(*             performs member calls one at a time; the call in progress   *)
(*             (op, arg), the storage before it (prev) and what it         *)
(*             returned (ret) are kept until the call's temporaries go    *)
(*             out of scope (Return).                                      *)
(* TraceSpec : a default-constructed object of a type main() uses, and the *)
(*             list of SetBit/ClearBit/ToggleBit calls made on it so far.  *)
(*                                                                         *)
(* MaskType is an unsigned type narrower than int, so every operand of a   *)
(* built-in operator is promoted to int and the result is converted back   *)
(* to MaskType on assignment (ToMaskType).  A shift whose count is not in  *)
(* [0, IntBits) is undefined behaviour; it is modelled as the set of       *)
(* values a hardware shifter yields (ShifterCounts).                       *)
(***************************************************************************)
EXTENDS Integers, Sequences, FiniteSets

VARIABLES T, Mask, op, arg, prev, ret, trace

vars == <<T, Mask, op, arg, prev, ret, trace>>

----------------------------------------------------------------------------
(* Program constants *)

\* bits of uint8_t, the MaskType of BitMask<uint8_t>
Bits8 == 8
\* bits of uint16_t, the MaskType of Enummask<MyEnum, uint16_t>
Bits16 == 16
\* bits of int, the type MaskType operands are promoted to
IntBits == 32
\* static_cast<int>(MyEnum::MAX)
EnumMAX == 4

(* Bounds of the model *)

\* bit positions passed to SetBit/ClearBit/ToggleBit/IsBitSet: -1..MaxPos
MaxPos == 9
\* shift counts passed to the shift operators: 0..MaxShift
MaxShift == 8
\* counts passed to IsBitNSet: -1..MaxN
MaxN == 9
\* storage of the right operand of a binary operator: 0..MaxOperand
MaxOperand == 31
\* calls recorded in trace
MaxOps == 3

----------------------------------------------------------------------------
(* Template instantiations *)

Instantiation(name, bits, tmax) == [name |-> name, bits |-> bits, tmax |-> tmax]

BitMask8 == Instantiation("BitMask<uint8_t>", Bits8, Bits8)

Enummask8 == Instantiation("Enummask<MyEnum, uint8_t>", Bits8, EnumMAX)

Enummask16 == Instantiation("Enummask<MyEnum, uint16_t>", Bits16, EnumMAX)

\* TMax one above the bits of MaskType
OverWide8 == Instantiation("BitMask<uint8_t, uint8_t, 9>", Bits8, Bits8 + 1)

\* TMax one above the bits of the promoted MaskType
OverInt8 == Instantiation("BitMask<uint8_t, uint8_t, 33>", Bits8, IntBits + 1)

Negative8 == Instantiation("BitMask<uint8_t, uint8_t, -1>", Bits8, -1)

\* the instantiations a translation unit may ask for
Requested == {BitMask8, Enummask8, OverWide8, OverInt8, Negative8}

\* the instantiations main() makes of the types it calls SetBit/ClearBit on
MainTypes == {BitMask8, Enummask16}

IsBitValidPos(tmax, pos) == pos >= 0 /\ pos <= tmax

\* static_assert(IsBitValidPos(TMax), ...): the instantiations that compile
StaticAssert(t) == IsBitValidPos(t.tmax, t.tmax)

----------------------------------------------------------------------------
(* Built-in operators on int (two's complement, \div and % floor) *)

RECURSIVE BitAnd(_, _)
BitAnd(a, b) ==
    IF a = 0 \/ b = 0 THEN 0
    ELSE IF a = -1 THEN b
    ELSE IF b = -1 THEN a
    ELSE (a % 2) * (b % 2) + 2 * BitAnd(a \div 2, b \div 2)

RECURSIVE BitOr(_, _)
BitOr(a, b) ==
    IF a = 0 THEN b
    ELSE IF b = 0 THEN a
    ELSE IF a = -1 \/ b = -1 THEN -1
    ELSE (IF (a % 2) + (b % 2) > 0 THEN 1 ELSE 0) + 2 * BitOr(a \div 2, b \div 2)

BitNot(a) == -1 - a

RECURSIVE BitXor(_, _)
BitXor(a, b) ==
    IF a = 0 THEN b
    ELSE IF b = 0 THEN a
    ELSE IF a = -1 THEN BitNot(b)
    ELSE IF b = -1 THEN BitNot(a)
    ELSE (((a % 2) + (b % 2)) % 2) + 2 * BitXor(a \div 2, b \div 2)

\* x << n for a count in [0, IntBits); the inputs drawn keep the result
\* within int
ShiftLeft(x, n) == x * (2 ^ n)

\* x >> n for a count in [0, IntBits)
RECURSIVE ShiftRight(_, _)
ShiftRight(x, n) == IF n = 0 \/ x = 0 THEN x ELSE ShiftRight(x \div 2, n - 1)

\* the counts a hardware shifter may apply when the count given is outside
\* [0, IntBits): the count modulo a power of two.  Counts of Bits16 and more
\* leave 0 in every MaskType modelled, which the outcome 0 stands for.
ShifterCounts == 0..(Bits16 - 1)

\* all values of  x << n
ShiftLeftAny(x, n) ==
    IF n >= 0 /\ n < IntBits THEN {ShiftLeft(x, n)}
    ELSE {0} \cup {ShiftLeft(x, k) : k \in ShifterCounts}

\* all values of  x >> n
ShiftRightAny(x, n) ==
    IF n >= 0 /\ n < IntBits THEN {ShiftRight(x, n)}
    ELSE {0} \cup {ShiftRight(x, k) : k \in ShifterCounts}

\* conversion of an int to MaskType / to an unsigned OpType
ToMaskType(x) == x % (2 ^ T.bits)

MaskValues == 0..(2 ^ T.bits - 1)

\* std::numeric_limits<MaskType>::max()
NumericLimitsMax == 2 ^ T.bits - 1

\* all values of  MaskType(1) << static_cast<MaskType>(bitPos)
OneShifted(bitPos) == ShiftLeftAny(1, ToMaskType(bitPos))

----------------------------------------------------------------------------
(* Member functions of BitMaskBase.  A function whose body shifts by a    *)
(* caller-given position yields the set of its possible results.          *)

\* Mask |= (MaskType(1) << static_cast<MaskType>(bitPos))
SetBit(m, bitPos) == {ToMaskType(BitOr(m, s)) : s \in OneShifted(bitPos)}

\* ClearBit with the complement left out
MutClearBit(m, bitPos) == {ToMaskType(BitAnd(m, s)) : s \in OneShifted(bitPos)}

\* Mask &= ~(MaskType(1) << static_cast<MaskType>(bitPos))
ClearBit(m, bitPos) == {ToMaskType(BitAnd(m, BitNot(s))) : s \in OneShifted(bitPos)}

\* Mask = 0
ResetAllBits(m) == 0

\* Mask ^= (MaskType(1) << static_cast<MaskType>(bitPos))
ToggleBit(m, bitPos) == {ToMaskType(BitXor(m, s)) : s \in OneShifted(bitPos)}

\* (Mask & (MaskType(1) << static_cast<MaskType>(pos))) != 0
IsBitSet(m, pos) == {BitAnd(m, s) # 0 : s \in OneShifted(pos)}

AnyBitSet(m) == m # 0

\* AllBitsSet comparing with the all-ones pattern of the TMax flags
MutAllBitsSet(m) == m = 2 ^ (IF T.tmax < T.bits THEN T.tmax ELSE T.bits) - 1

AllBitsSet(m) == m = NumericLimitsMax

\* while (tempMask != 0) { count += tempMask & 1; tempMask >>= 1; }
RECURSIVE CountSetBitsLoop(_, _)
CountSetBitsLoop(count, tempMask) ==
    IF tempMask # 0
    THEN CountSetBitsLoop(count + BitAnd(tempMask, 1), ToMaskType(ShiftRight(tempMask, 1)))
    ELSE count

\* CountSetBits shifting before it counts, so that bit 0 is skipped
MutCountSetBits(m) == CountSetBitsLoop(0, ToMaskType(ShiftRight(m, 1)))

CountSetBits(m) == CountSetBitsLoop(0, m)

\* while (tempMask != 0 && count < pos) { count += tempMask & 1; tempMask >>= 1; }
RECURSIVE IsBitNSetLoop(_, _, _)
IsBitNSetLoop(count, tempMask, pos) ==
    IF tempMask # 0 /\ count < pos
    THEN IsBitNSetLoop(count + BitAnd(tempMask, 1), ToMaskType(ShiftRight(tempMask, 1)), pos)
    ELSE count

\* IsBitNSet with the loop test count <= pos
MutIsBitNSet(m, pos) == IsBitNSetLoop(0, m, pos + 1)

IsBitNSet(m, pos) == IsBitNSetLoop(0, m, pos)

\* ((value >> i) & 1) ? '1' : '0'
BinaryChar(value, i) ==
    {IF BitAnd(v, 1) # 0 THEN "1" ELSE "0" : v \in ShiftRightAny(value, i)}

\* for (int i = TMax - 1; i >= 0; i--) result += ...;  a std::string is the
\* sequence of its characters
RECURSIVE toBinaryStringLoop(_, _, _)
toBinaryStringLoop(results, value, i) ==
    IF i >= 0
    THEN toBinaryStringLoop({Append(r, c) : r \in results, c \in BinaryChar(value, i)},
                            value, i - 1)
    ELSE results

\* toBinaryString with the loop started at TMax
MuttoBinaryString(m) == toBinaryStringLoop({<<>>}, m, T.tmax)

toBinaryString(m) == toBinaryStringLoop({<<>>}, m, T.tmax - 1)

\* operator+ with ^ for |
MutOperatorPlus(m, other) == ToMaskType(BitXor(m, other))

\* result.Mask = Mask | other.Mask
OperatorPlus(m, other) == ToMaskType(BitOr(m, other))

\* result.Mask = Mask & (~other.Mask)
OperatorMinus(m, other) == ToMaskType(BitAnd(m, BitNot(other)))

\* Mask |= other.Mask
OperatorPlusAssign(m, other) == ToMaskType(BitOr(m, other))

\* Mask &= (~other.Mask)
OperatorMinusAssign(m, other) == ToMaskType(BitAnd(m, BitNot(other)))

\* result.Mask = Mask ^ other.Mask
OperatorXor(m, other) == ToMaskType(BitXor(m, other))

\* Mask ^= other.Mask
OperatorXorAssign(m, other) == ToMaskType(BitXor(m, other))

\* result.Mask = ~result.Mask
OperatorNot(m) == ToMaskType(BitNot(m))

\* result.Mask <<= shift
OperatorShl(m, shift) == ToMaskType(ShiftLeft(m, shift))

\* result.Mask >>= shift
OperatorShr(m, shift) == ToMaskType(ShiftRight(m, shift))

\* Mask <<= shift
OperatorShlAssign(m, shift) == ToMaskType(ShiftLeft(m, shift))

\* Mask >>= shift
OperatorShrAssign(m, shift) == ToMaskType(ShiftRight(m, shift))

OperatorEq(m, other) == m = other

OperatorNe(m, other) == m # other

\* Mask = other.Mask
OperatorAssign(m, other) == other

----------------------------------------------------------------------------
(* The caller's inputs *)

Positions == -1..MaxPos

ShiftCounts == 0..MaxShift

Counts == -1..MaxN

Operands == 0..MaxOperand

\* no call in progress
Idle == "idle"

\* what a call of a void function, or construction, returns
Void == "void"

----------------------------------------------------------------------------
(* One object and the calls made on it *)

\* explicit BitMaskBase(MaskType initialValue) : Mask(initialValue), for an
\* instantiation that passes the static_assert; BitMaskBase() is the value 0
Init ==
    /\ T \in {t \in Requested : StaticAssert(t)}
    /\ Mask \in MaskValues
    /\ op = "BitMaskBase"
    /\ arg = Mask
    /\ prev = Mask
    /\ ret = Void
    /\ trace = <<>>

\* the call name(a) runs to completion: the storage becomes m, r is returned.
\* A call is made when no other is in progress (op = Idle).
Call(name, a, m, r) ==
    /\ op' = name
    /\ arg' = a
    /\ prev' = Mask
    /\ Mask' = m
    /\ ret' = r
    /\ UNCHANGED <<T, trace>>

\* the argument and the returned value of the finished call go out of scope
Return ==
    /\ op # Idle
    /\ op' = Idle
    /\ arg' = 0
    /\ prev' = Mask
    /\ ret' = Void
    /\ UNCHANGED <<T, Mask, trace>>

CallSetBit ==
    /\ op = Idle
    /\ \E pos \in Positions : \E m \in SetBit(Mask, pos) : Call("SetBit", pos, m, Void)

CallClearBit ==
    /\ op = Idle
    /\ \E pos \in Positions : \E m \in ClearBit(Mask, pos) : Call("ClearBit", pos, m, Void)

CallResetAllBits ==
    /\ op = Idle
    /\ Call("ResetAllBits", 0, ResetAllBits(Mask), Void)

CallToggleBit ==
    /\ op = Idle
    /\ \E pos \in Positions : \E m \in ToggleBit(Mask, pos) : Call("ToggleBit", pos, m, Void)

CallIsBitSet ==
    /\ op = Idle
    /\ \E pos \in Positions : \E r \in IsBitSet(Mask, pos) : Call("IsBitSet", pos, Mask, r)

CallAnyBitSet ==
    /\ op = Idle
    /\ Call("AnyBitSet", 0, Mask, AnyBitSet(Mask))

CallAllBitsSet ==
    /\ op = Idle
    /\ Call("AllBitsSet", 0, Mask, AllBitsSet(Mask))

CallCountSetBits ==
    /\ op = Idle
    /\ Call("CountSetBits", 0, Mask, CountSetBits(Mask))

CallIsBitNSet ==
    /\ op = Idle
    /\ \E n \in Counts : Call("IsBitNSet", n, Mask, IsBitNSet(Mask, n))

CalltoBinaryString ==
    /\ op = Idle
    /\ \E r \in toBinaryString(Mask) : Call("toBinaryString", 0, Mask, r)

CallOperatorPlus ==
    /\ op = Idle
    /\ \E other \in Operands : Call("operator+", other, Mask, OperatorPlus(Mask, other))

CallOperatorMinus ==
    /\ op = Idle
    /\ \E other \in Operands : Call("operator-", other, Mask, OperatorMinus(Mask, other))

CallOperatorPlusAssign ==
    /\ op = Idle
    /\ \E other \in Operands :
       LET m == OperatorPlusAssign(Mask, other) IN Call("operator+=", other, m, m)

CallOperatorMinusAssign ==
    /\ op = Idle
    /\ \E other \in Operands :
       LET m == OperatorMinusAssign(Mask, other) IN Call("operator-=", other, m, m)

CallOperatorXor ==
    /\ op = Idle
    /\ \E other \in Operands : Call("operator^", other, Mask, OperatorXor(Mask, other))

CallOperatorXorAssign ==
    /\ op = Idle
    /\ \E other \in Operands :
       LET m == OperatorXorAssign(Mask, other) IN Call("operator^=", other, m, m)

CallOperatorNot ==
    /\ op = Idle
    /\ Call("operator~", 0, Mask, OperatorNot(Mask))

CallOperatorShl ==
    /\ op = Idle
    /\ \E shift \in ShiftCounts : Call("operator<<", shift, Mask, OperatorShl(Mask, shift))

CallOperatorShr ==
    /\ op = Idle
    /\ \E shift \in ShiftCounts : Call("operator>>", shift, Mask, OperatorShr(Mask, shift))

CallOperatorShlAssign ==
    /\ op = Idle
    /\ \E shift \in ShiftCounts :
       LET m == OperatorShlAssign(Mask, shift) IN Call("operator<<=", shift, m, m)

CallOperatorShrAssign ==
    /\ op = Idle
    /\ \E shift \in ShiftCounts :
       LET m == OperatorShrAssign(Mask, shift) IN Call("operator>>=", shift, m, m)

CallOperatorEq ==
    /\ op = Idle
    /\ \E other \in Operands : Call("operator==", other, Mask, OperatorEq(Mask, other))

CallOperatorNe ==
    /\ op = Idle
    /\ \E other \in Operands : Call("operator!=", other, Mask, OperatorNe(Mask, other))

CallOperatorAssign ==
    /\ op = Idle
    /\ \E other \in Operands :
       LET m == OperatorAssign(Mask, other) IN Call("operator=", other, m, m)

Next ==
    \/ Return
    \/ CallSetBit
    \/ CallClearBit
    \/ CallResetAllBits
    \/ CallToggleBit
    \/ CallIsBitSet
    \/ CallAnyBitSet
    \/ CallAllBitsSet
    \/ CallCountSetBits
    \/ CallIsBitNSet
    \/ CalltoBinaryString
    \/ CallOperatorPlus
    \/ CallOperatorMinus
    \/ CallOperatorPlusAssign
    \/ CallOperatorMinusAssign
    \/ CallOperatorXor
    \/ CallOperatorXorAssign
    \/ CallOperatorNot
    \/ CallOperatorShl
    \/ CallOperatorShr
    \/ CallOperatorShlAssign
    \/ CallOperatorShrAssign
    \/ CallOperatorEq
    \/ CallOperatorNe
    \/ CallOperatorAssign

Spec == Init /\ [][Next]_vars

----------------------------------------------------------------------------
(* A default-constructed object of main() and the calls made on it so far *)

\* the positions passed: those of the object's TMax flags
TracedPositions == 0..(T.tmax - 1)

\* BitMaskBase() : Mask(0)
TraceInit ==
    /\ T \in {t \in MainTypes : StaticAssert(t)}
    /\ Mask = 0
    /\ op = Idle
    /\ arg = 0
    /\ prev = 0
    /\ ret = Void
    /\ trace = <<>>

\* the call name(pos) is made and recorded
Record(name, pos, m) ==
    /\ Len(trace) < MaxOps
    /\ Mask' = m
    /\ trace' = Append(trace, <<name, pos>>)
    /\ UNCHANGED <<T, op, arg, prev, ret>>

TracedSetBit ==
    \E pos \in TracedPositions : \E m \in SetBit(Mask, pos) : Record("SetBit", pos, m)

TracedClearBit ==
    \E pos \in TracedPositions : \E m \in ClearBit(Mask, pos) : Record("ClearBit", pos, m)

TracedToggleBit ==
    \E pos \in TracedPositions : \E m \in ToggleBit(Mask, pos) : Record("ToggleBit", pos, m)

TraceNext ==
    \/ TracedSetBit
    \/ TracedClearBit
    \/ TracedToggleBit

TraceSpec == TraceInit /\ [][TraceNext]_vars

----------------------------------------------------------------------------
(* Vocabulary of the properties, independent of the member functions *)

\* bit k of the storage m is 1
StorageBit(m, k) == k \in 0..(T.bits - 1) /\ (m \div (2 ^ k)) % 2 = 1

\* the number of 1 bits of the storage m
PopCount(m) == Cardinality({k \in 0..(T.bits - 1) : StorageBit(m, k)})

\* the positions [0, W) of the object's type
ValidPositions == 0..(T.tmax - 1)

Min(a, b) == IF a <= b THEN a ELSE b

\* a std::string written as in the source
Chars8(a, b, c, d, e, f, g, h) == <<a, b, c, d, e, f, g, h>>

----------------------------------------------------------------------------
(* C1 *)

\* C1 (as claimed): for every mask and every valid position p in [0, W),
\* after SetBit(p) IsBitSet(p) is true, after ClearBit(p) IsBitSet(p) is
\* false, and a second ToggleBit(p) gives back the storage held before the
\* first.
C1_SetClearToggle ==
    /\ (op = "SetBit" /\ arg \in ValidPositions) => IsBitSet(Mask, arg) = {TRUE}
    /\ (op = "ClearBit" /\ arg \in ValidPositions) => IsBitSet(Mask, arg) = {FALSE}
    /\ (op = "ToggleBit" /\ arg \in ValidPositions) => ToggleBit(Mask, arg) = {prev}

\* The same on the types whose TMax is within the bits of MaskType.
SetClearToggleWithinStorage == T.tmax <= T.bits => C1_SetClearToggle

----------------------------------------------------------------------------
(* C2 *)

\* C2 (as claimed): toBinaryString() returns exactly W characters, each '0'
\* or '1', and the character at index i from the most significant end is '1'
\* if and only if bit W-1-i of the storage is set.
C2_BinaryString ==
    op = "toBinaryString" =>
        /\ Len(ret) = T.tmax
        /\ \A i \in 0..(T.tmax - 1) :
              /\ ret[i + 1] \in {"0", "1"}
              /\ ret[i + 1] = "1" <=> StorageBit(prev, T.tmax - 1 - i)

\* The same on the types whose TMax is within the bits of int.
BinaryStringWithinInt == T.tmax <= IntBits => C2_BinaryString

----------------------------------------------------------------------------
(* C3 *)

\* C3 (as claimed), on a type whose W is smaller than the bits of MaskType:
\* CountSetBits() equals the number of valid positions p in [0, W) for which
\* IsBitSet(p) is true.
C3_CountOverWidth ==
    (T.tmax < T.bits /\ op = "CountSetBits") =>
        ret = Cardinality({p \in ValidPositions : IsBitSet(prev, p) = {TRUE}})

\* C3 (amended): CountSetBits() equals the number of positions p in [0, S),
\* S the bits of MaskType, for which IsBitSet(p) is true; when W <= S and no
\* storage bit at a position >= W is set, that is the number over [0, W).
C3_CountOverStorage ==
    op = "CountSetBits" =>
        /\ ret = Cardinality({p \in 0..(T.bits - 1) : IsBitSet(prev, p) = {TRUE}})
        /\ (T.tmax <= T.bits /\ prev < 2 ^ T.tmax) =>
              ret = Cardinality({p \in ValidPositions : IsBitSet(prev, p) = {TRUE}})
        /\ Mask = prev

\* CountSetBits() was called on a mask of a narrow type with a bit set at a
\* position >= W, and counted more than W bits
C3_Witness ==
    /\ op = "CountSetBits"
    /\ T.tmax < T.bits
    /\ prev >= 2 ^ T.tmax
    /\ ret > T.tmax

----------------------------------------------------------------------------
(* C4 *)

\* C4: operator+ is commutative, associative, idempotent and has the zero
\* mask as identity, and operator+= leaves in its left operand the storage
\* operator+ returns.
C4_CombineAlgebra ==
    /\ op = "operator+" =>
          /\ OperatorEq(ret, OperatorPlus(arg, prev))
          /\ \A c \in Operands :
                OperatorEq(OperatorPlus(ret, c), OperatorPlus(prev, OperatorPlus(arg, c)))
          /\ arg = prev => OperatorEq(ret, prev)
          /\ arg = 0 => OperatorEq(ret, prev)
          /\ Mask = prev
    /\ op = "operator+=" => Mask = OperatorPlus(prev, arg) /\ ret = Mask

\* main()'s A = bits{0,3} combined with B = bits{1,2} on BitMask<uint8_t>
C4_Witness ==
    /\ T = BitMask8
    /\ op = "operator+"
    /\ prev = 9
    /\ arg = 6
    /\ ret = 15

----------------------------------------------------------------------------
(* C5 *)

\* C5 (as claimed): on a zero-constructed BitMask<uint8_t>, after SetBit(2)
\* and SetBit(5) toBinaryString() is "00100100", CountSetBits() is 2 and
\* AnyBitSet() is true; after a following ClearBit(2), toBinaryString() is
\* "00000100".
C5_Scenario ==
    T = BitMask8 =>
        /\ trace = << <<"SetBit", 2>>, <<"SetBit", 5>> >> =>
              /\ toBinaryString(Mask) = {Chars8("0", "0", "1", "0", "0", "1", "0", "0")}
              /\ CountSetBits(Mask) = 2
              /\ AnyBitSet(Mask) = TRUE
        /\ trace = << <<"SetBit", 2>>, <<"SetBit", 5>>, <<"ClearBit", 2>> >> =>
              toBinaryString(Mask) = {Chars8("0", "0", "0", "0", "0", "1", "0", "0")}

\* C5 (amended): ... after a following ClearBit(2), toBinaryString() is
\* "00100000": bit 5 is the one that stays.
C5_ScenarioBit5Stays ==
    T = BitMask8 =>
        /\ trace = << <<"SetBit", 2>>, <<"SetBit", 5>> >> =>
              /\ toBinaryString(Mask) = {Chars8("0", "0", "1", "0", "0", "1", "0", "0")}
              /\ CountSetBits(Mask) = 2
              /\ AnyBitSet(Mask) = TRUE
        /\ trace = << <<"SetBit", 2>>, <<"SetBit", 5>>, <<"ClearBit", 2>> >> =>
              toBinaryString(Mask) = {Chars8("0", "0", "1", "0", "0", "0", "0", "0")}

C5_Witness ==
    /\ T = BitMask8
    /\ trace = << <<"SetBit", 2>>, <<"SetBit", 5>>, <<"ClearBit", 2>> >>

----------------------------------------------------------------------------
(* C6 *)

\* C6 (as claimed): on a zero Enummask<MyEnum, uint16_t>, after setting the
\* flags at ordinals 0 and 1, toBinaryString() has length 4 and is not "0011".
C6_NotExpected ==
    (T = Enummask16 /\ trace = << <<"SetBit", 0>>, <<"SetBit", 1>> >>) =>
        \A s \in toBinaryString(Mask) : Len(s) = EnumMAX /\ s # <<"0", "0", "1", "1">>

\* C6 (amended): ... toBinaryString() has length 4 and is "0011".
C6_MsbFirst ==
    (T = Enummask16 /\ trace = << <<"SetBit", 0>>, <<"SetBit", 1>> >>) =>
        /\ toBinaryString(Mask) = {<<"0", "0", "1", "1">>}
        /\ \A s \in toBinaryString(Mask) : Len(s) = EnumMAX

C6_Witness ==
    /\ T = Enummask16
    /\ trace = << <<"SetBit", 0>>, <<"SetBit", 1>> >>

----------------------------------------------------------------------------
(* C7 *)

\* C7 (as claimed), on the types whose TMax is within the bits of MaskType:
\* SetBit(pos) with pos = -1 or pos >= W reports OutOfRangePosition and
\* leaves the storage as it was before the call.
C7_OutOfRangeReported ==
    (T.tmax <= T.bits /\ op = "SetBit" /\ (arg = -1 \/ arg >= T.tmax)) =>
        /\ ret = "OutOfRangePosition"
        /\ Mask = prev

\* The storage part alone, for the positions >= W whose shift is defined.
OutOfRangeLeavesStorage ==
    (T.tmax <= T.bits /\ op = "SetBit" /\ arg >= T.tmax) => Mask = prev

----------------------------------------------------------------------------
(* C8 *)

\* C8 (as claimed): on a type whose W is smaller than the bits of MaskType,
\* AllBitsSet() returns false in every reachable state.
C8_NeverAllBitsSet ==
    (T.tmax < T.bits /\ op = "AllBitsSet") => ret = FALSE

\* C8 (amended): AllBitsSet() returns true exactly when every bit of the
\* storage is 1; on a type whose W is smaller than the bits of MaskType it
\* returns false in every state with no storage bit set at a position >= W,
\* the state with all W logical bits 1 included.
C8_AllBitsSetIsFullStorage ==
    op = "AllBitsSet" =>
        /\ ret = (\A k \in 0..(T.bits - 1) : StorageBit(prev, k))
        /\ (T.tmax < T.bits /\ prev < 2 ^ T.tmax) => ret = FALSE
        /\ Mask = prev

\* AllBitsSet() was called with all W logical bits 1 and nothing above them
C8_Witness ==
    /\ T.tmax < T.bits
    /\ op = "AllBitsSet"
    /\ prev = 2 ^ T.tmax - 1
    /\ ret = FALSE

----------------------------------------------------------------------------
(* C9 *)

\* C9: IsBitNSet(n) returns min(n, number of 1 bits) for n >= 0 and 0 for
\* n <= 0, never more than n for n >= 0, and leaves the storage unchanged.
C9_IsBitNSet ==
    op = "IsBitNSet" =>
        /\ ret = (IF arg <= 0 THEN 0 ELSE Min(arg, PopCount(prev)))
        /\ arg >= 0 => ret <= arg
        /\ Mask = prev

\* the scan stopped before the last 1 bit because the count had reached n
C9_Witness ==
    /\ op = "IsBitNSet"
    /\ arg > 0
    /\ arg < PopCount(prev)
    /\ ret = arg

----------------------------------------------------------------------------
(* C10 *)

\* C10 (as claimed): no mask whose W exceeds the bits of its MaskType is
\* constructed.
C10_WidthWithinStorage == T.tmax <= T.bits

====
